---- MODULE Spec2Model ----
(***************************************************************************)
(* Model of src/TunnelReduction.c: the reduction of the bounded tunnel     *)
(* path problem to SAT (boundary sub-formula, conjunction of the four      *)
(* sub-formulas), the decoding of a model into a path, and the printing of *)
(* a model.                                                                *)
(***************************************************************************)
EXTENDS Integers, Sequences, FiniteSets, TLC

VARIABLES network, length, pc, k, constraints, model, pos, path, locals,
          queried, out, walk

vars == <<network, length, pc, k, constraints, model, pos, path, locals,
          queried, out, walk>>

(***************************************************************************)
(* Bounds of the model.                                                    *)
(***************************************************************************)
\* boundary builder alone
BMaxNodes == 4
BMaxLen == 3
\* full formula and decoder
MaxNodes == 4
MaxLen == 2
\* full formula and decoder on line networks
WideNodes == 8
WideLen == 2
\* arbitrary models handed to the decoder
AnyMaxNodes == 1
AnyMaxLen == 2
\* arbitrary models handed to the printer
PrintMaxNodes == 2
PrintMaxLen == 4
\* a column of an arbitrary model has at most this many true path variables
MaxTrue == 2
\* height walks
WalkMaxLen == 7

\* Z3_ast constraints[20]
Capacity == 20

(***************************************************************************)
(* Variable Generator.  mk_bool_var interns by name; the name is the       *)
(* snprintf of the key, so a variable is its kind and the integers in the  *)
(* order the format prints them.                                           *)
(***************************************************************************)
tn_path_variable(node, p, stack_height) == <<"node", node, p, stack_height>>

tn_4_variable(p, height) == <<"4", height, p, 0>>

tn_6_variable(p, height) == <<"6", height, p, 0>>

\* the position a variable speaks about
VarPos(v) == v[3]

get_stack_size_half(len) == len \div 2

get_stack_size(len) == len \div 2 + 1

\* a model is the set of the variables it makes true
value_of_var_in_model(m, v) == v \in m

(***************************************************************************)
(* Literals and conjunctions of literals.                                  *)
(***************************************************************************)
Lit(v) == [neg |-> FALSE, v |-> v]

Z3_mk_not(v) == [neg |-> TRUE, v |-> v]

LitHolds(m, lit) == value_of_var_in_model(m, lit.v) = ~lit.neg

\* Z3_mk_and over a sequence of literals
Z3_mk_and(lits, m) == \A i \in 1..Len(lits) : LitHolds(m, lits[i])

Nodes(net) == 0..(net.num_nodes - 1)

(***************************************************************************)
(* formula_initial_and_final_positions: the constraints in the order the   *)
(* function emits them (each one is written at constraints[k++]).          *)
(***************************************************************************)
\* loop over node, h skipping (keep, 0): NOT x_{node,p,h}
NotOthers(num_nodes, stack_size, p, keep) ==
    LET all == [i \in 1..(num_nodes * stack_size) |->
                   [node |-> (i - 1) \div stack_size, h |-> (i - 1) % stack_size]]
        rest == SelectSeq(all, LAMBDA e : ~(e.node = keep /\ e.h = 0))
    IN [i \in 1..Len(rest) |-> Z3_mk_not(tn_path_variable(rest[i].node, p, rest[i].h))]

StackIsSix(stack_size, p) ==
    <<Lit(tn_6_variable(p, 0)), Z3_mk_not(tn_4_variable(p, 0))>> \o
    [j \in 1..(2 * (stack_size - 1)) |->
        IF j % 2 = 1 THEN Z3_mk_not(tn_4_variable(p, (j + 1) \div 2))
                     ELSE Z3_mk_not(tn_6_variable(p, j \div 2))]

\* the stack at position p is [4]
StackIsFour(stack_size, p) ==
    <<Lit(tn_4_variable(p, 0)), Z3_mk_not(tn_6_variable(p, 0))>> \o
    [j \in 1..(2 * (stack_size - 1)) |->
        IF j % 2 = 1 THEN Z3_mk_not(tn_4_variable(p, (j + 1) \div 2))
                     ELSE Z3_mk_not(tn_6_variable(p, j \div 2))]

Emitted(net, len) ==
    LET stack_size == get_stack_size(len)
        s == net.initial
        d == net.final
    IN <<Lit(tn_path_variable(s, 0, 0))>> \o
       NotOthers(net.num_nodes, stack_size, 0, s) \o
       StackIsFour(stack_size, 0) \o
       <<Lit(tn_path_variable(d, len, 0))>> \o
       NotOthers(net.num_nodes, stack_size, len, d) \o
       StackIsFour(stack_size, len)

\* What Z3_mk_and(ctx, k, constraints) can read back.  A write at an index
\* >= Capacity is outside constraints[20]: undefined behaviour.  The outcomes
\* modelled: the process is killed (stack smashing), or the words past the
\* array survive up to some index and are garbage after it, so that the
\* conjunction holds the constraints before that index only.
BuildOutcomes(net, len) ==
    LET e == Emitted(net, len)
    IN IF Len(e) <= Capacity
       THEN {[crashed |-> FALSE, kept |-> e]}
       ELSE {[crashed |-> TRUE, kept |-> <<>>]} \cup
            {[crashed |-> FALSE, kept |-> SubSeq(e, 1, j)] : j \in Capacity..Len(e)}

formula_initial_and_final_positions ==
    /\ pc = "build"
    /\ \E o \in BuildOutcomes(network, length) :
         /\ k' = Len(Emitted(network, length))
         /\ constraints' = o.kept
         /\ pc' = IF o.crashed THEN "crashed" ELSE "built"
    /\ UNCHANGED <<network, length, model, pos, path, locals, queried, out, walk>>

(***************************************************************************)
(* Networks.  The network is the TunnelNetwork collaborator: a node count, *)
(* an initial and a final node, and edges with the actions they allow.     *)
(***************************************************************************)
Actions == {"transmit_4", "transmit_6",
            "push_4_4", "push_4_6", "push_6_4", "push_6_6",
            "pop_4_4", "pop_4_6", "pop_6_4", "pop_6_6"}

NoEdges(n) == {}

BoundaryNetworks ==
    {[num_nodes |-> n, initial |-> s, final |-> d, edges |-> NoEdges(n)] :
        n \in 1..BMaxNodes, s \in 0..(BMaxNodes - 1), d \in 0..(BMaxNodes - 1)}

InRange(net) == net.initial < net.num_nodes /\ net.final < net.num_nodes

Idle == [src |-> -1, src_height |-> -1, tgt |-> -1, tgt_height |-> -1]

Line(n, caps) == {[src |-> i, tgt |-> i + 1, caps |-> caps] : i \in 0..(n - 2)}

Complete(n, caps) ==
    {[src |-> e[1], tgt |-> e[2], caps |-> caps] :
        e \in {f \in (0..(n - 1)) \X (0..(n - 1)) : f[1] # f[2]}}

CapSets == {{"transmit_4", "transmit_6"}, Actions}

DecodeNetworks ==
    UNION {{[num_nodes |-> n, initial |-> s, final |-> d, edges |-> Line(n, c)],
            [num_nodes |-> n, initial |-> s, final |-> d, edges |-> Complete(n, c)]} :
           n \in 1..MaxNodes, s \in 0..(MaxNodes - 1), d \in 0..(MaxNodes - 1),
           c \in CapSets}

WideNetworks ==
    {[num_nodes |-> n, initial |-> s, final |-> d, edges |-> Line(n, Actions)] :
        n \in 1..WideNodes, s \in 0..(WideNodes - 1), d \in 0..(WideNodes - 1)}

\* the path variables true at position p, as (node, height) pairs
TruePairs(m, net, len, p) ==
    {e \in Nodes(net) \X (0..(get_stack_size(len) - 1)) :
        value_of_var_in_model(m, tn_path_variable(e[1], p, e[2]))}

(***************************************************************************)
(* The three sub-formulas tn_reduction conjoins with the boundary formula, *)
(* evaluated in a model m.  ps is the set of positions whose constraints   *)
(* are evaluated: 0..length for the whole sub-formula.                     *)
(***************************************************************************)
\* exactly one (node, height) pair per position
formula_unique_node_per_position(m, net, len, ps) ==
    \A p \in ps :
        /\ TruePairs(m, net, len, p) # {}
        /\ \A a \in TruePairs(m, net, len, p), b \in TruePairs(m, net, len, p) : a = b

\* each node is occupied at no more than one position
formula_simple_path(m, net, len, ps) ==
    \A p \in ps : \A e \in TruePairs(m, net, len, p) : \A q \in 0..len :
        (\E f \in TruePairs(m, net, len, q) : f[1] = e[1]) => p = q

SymVar(a, p, h) == IF a = "4" THEN tn_4_variable(p, h) ELSE tn_6_variable(p, h)

Other(a) == IF a = "4" THEN "6" ELSE "4"

\* the cells hs are the same at p and p + 1
SameCells(m, p, hs) ==
    \A h \in hs : \A a \in {"4", "6"} :
        value_of_var_in_model(m, SymVar(a, p + 1, h)) = value_of_var_in_model(m, SymVar(a, p, h))

\* the cells hs are empty at p
EmptyCells(m, p, hs) ==
    \A h \in hs : \A a \in {"4", "6"} : ~value_of_var_in_model(m, SymVar(a, p, h))

\* the move from height h at p to height h2 at p + 1 over an edge with
\* capabilities caps is a transmit, a push or a pop the edge allows
Move(m, caps, stack_size, p, h, h2) ==
    \/ /\ h2 = h
       /\ \E a \in {"4", "6"} :
            /\ value_of_var_in_model(m, SymVar(a, p, h))
            /\ ("transmit_" \o a) \in caps
       /\ SameCells(m, p, 0..(stack_size - 1))
    \/ /\ h2 = h + 1
       /\ h + 1 < stack_size
       /\ \E a \in {"4", "6"}, b \in {"4", "6"} :
            /\ value_of_var_in_model(m, SymVar(a, p, h))
            /\ ("push_" \o a \o "_" \o b) \in caps
            /\ value_of_var_in_model(m, SymVar(b, p + 1, h + 1))
            /\ ~value_of_var_in_model(m, SymVar(Other(b), p + 1, h + 1))
       /\ SameCells(m, p, 0..h)
       /\ EmptyCells(m, p + 1, (h + 2)..(stack_size - 1))
    \/ /\ h2 = h - 1
       /\ h > 0
       /\ \E a \in {"4", "6"}, b \in {"4", "6"} :
            /\ value_of_var_in_model(m, SymVar(b, p, h))
            /\ value_of_var_in_model(m, SymVar(a, p + 1, h - 1))
            /\ ("pop_" \o a \o "_" \o b) \in caps
       /\ SameCells(m, p, 0..(h - 1))
       /\ EmptyCells(m, p + 1, h..(stack_size - 1))

\* every pair of consecutive positions p, p + 1 is a move over an edge
formula_valid_transitions(m, net, len, ps) ==
    \A p \in ps \cap (0..(len - 1)) :
        \A a \in TruePairs(m, net, len, p), b \in TruePairs(m, net, len, p + 1) :
            \E e \in net.edges :
                /\ e.src = a[1]
                /\ e.tgt = b[1]
                /\ Move(m, e.caps, get_stack_size(len), p, a[2], b[2])

\* m satisfies the conjunction of the four parts (lits: the boundary part as
\* it was built)
tn_reduction(m, net, len, lits) ==
    /\ Z3_mk_and(lits, m)
    /\ formula_unique_node_per_position(m, net, len, 0..len)
    /\ formula_simple_path(m, net, len, 0..len)
    /\ formula_valid_transitions(m, net, len, 0..len)

(***************************************************************************)
(* Columns of a model: the variables of one position.                      *)
(***************************************************************************)
PathVarsAt(num_nodes, stack_size, p) ==
    {tn_path_variable(n, p, h) : n \in 0..(num_nodes - 1), h \in 0..(stack_size - 1)}

SymVarsAt(stack_size, p) ==
    {tn_4_variable(p, h) : h \in 0..(stack_size - 1)} \cup
    {tn_6_variable(p, h) : h \in 0..(stack_size - 1)}

RECURSIVE AtMost(_, _)
\* the subsets of U with at most n elements
AtMost(U, n) ==
    IF n = 0 THEN {{}}
    ELSE LET smaller == AtMost(U, n - 1)
         IN smaller \cup {A \cup {u} : A \in smaller, u \in U}

\* the columns of position p: at most MaxTrue true path variables, any stack
Columns(num_nodes, stack_size, p) ==
    {xs \cup ys : xs \in AtMost(PathVarsAt(num_nodes, stack_size, p), MaxTrue),
                  ys \in SUBSET SymVarsAt(stack_size, p)}

\* the literals of lits about the variables of position p, path variables
\* (nodeVars) or symbol variables
LitsAt(lits, p, nodeVars) ==
    SelectSeq(lits, LAMBDA l : VarPos(l.v) = p /\ ((l.v[1] = "node") = nodeVars))

RECURSIVE Prefixes(_, _, _, _)
\* the search of the solver: the assignments of the positions 0..p that
\* satisfy the constraints of the formula between these positions
Prefixes(net, len, lits, p) ==
    LET before == IF p = 0 THEN {{}} ELSE Prefixes(net, len, lits, p - 1)
        stack_size == get_stack_size(len)
        xcols == {xs \in AtMost(PathVarsAt(net.num_nodes, stack_size, p), MaxTrue) :
                    /\ Z3_mk_and(LitsAt(lits, p, TRUE), xs)
                    /\ formula_unique_node_per_position(xs, net, len, {p})}
        ycols == {ys \in SUBSET SymVarsAt(stack_size, p) :
                    Z3_mk_and(LitsAt(lits, p, FALSE), ys)}
        grown == {mx \in {m \cup xs : m \in before, xs \in xcols} :
                    formula_simple_path(mx, net, len, {p})}
    IN {m \in {mx \cup ys : mx \in grown, ys \in ycols} :
          formula_valid_transitions(m, net, len, {p - 1})}

(***************************************************************************)
(* tn_get_path_from_model, one iteration of its loop over pos.             *)
(***************************************************************************)
Max(S) == CHOOSE x \in S : \A y \in S : y <= x

\* the scan over n, height: the last true variable in loop order wins
LastTrue(m, num_nodes, stack_size, p) ==
    LET hits == {i \in 0..(num_nodes * stack_size - 1) :
                   value_of_var_in_model(m, tn_path_variable(i \div stack_size, p, i % stack_size))}
    IN IF hits = {} THEN <<-1, -1>>
       ELSE <<Max(hits) \div stack_size, Max(hits) % stack_size>>

ActionOfSwapped(m, p, src_height, tgt_height) ==
    IF src_height = tgt_height
    THEN IF value_of_var_in_model(m, tn_4_variable(p, src_height))
         THEN "transmit_6" ELSE "transmit_4"
    ELSE IF src_height = tgt_height - 1
    THEN IF value_of_var_in_model(m, tn_4_variable(p, src_height))
         THEN IF value_of_var_in_model(m, tn_4_variable(p + 1, tgt_height))
              THEN "push_4_6" ELSE "push_4_4"
         ELSE IF value_of_var_in_model(m, tn_4_variable(p + 1, tgt_height))
              THEN "push_6_6" ELSE "push_6_4"
    ELSE IF src_height = tgt_height + 1
    THEN IF value_of_var_in_model(m, tn_4_variable(p, src_height))
         THEN IF value_of_var_in_model(m, tn_4_variable(p + 1, tgt_height))
              THEN "pop_4_6" ELSE "pop_6_6"
         ELSE IF value_of_var_in_model(m, tn_4_variable(p + 1, tgt_height))
              THEN "pop_4_4" ELSE "pop_6_4"
    ELSE "0"

ActionOfPopFirst(m, p, src_height, tgt_height) ==
    IF src_height = tgt_height
    THEN IF value_of_var_in_model(m, tn_4_variable(p, src_height))
         THEN "transmit_4" ELSE "transmit_6"
    ELSE IF src_height = tgt_height - 1
    THEN IF value_of_var_in_model(m, tn_4_variable(p, src_height))
         THEN IF value_of_var_in_model(m, tn_4_variable(p + 1, tgt_height))
              THEN "pop_4_4" ELSE "pop_6_4"
         ELSE IF value_of_var_in_model(m, tn_4_variable(p + 1, tgt_height))
              THEN "pop_4_6" ELSE "pop_6_6"
    ELSE IF src_height = tgt_height + 1
    THEN IF value_of_var_in_model(m, tn_4_variable(p, src_height))
         THEN IF value_of_var_in_model(m, tn_4_variable(p + 1, tgt_height))
              THEN "push_4_4" ELSE "push_4_6"
         ELSE IF value_of_var_in_model(m, tn_4_variable(p + 1, tgt_height))
              THEN "push_6_4" ELSE "push_6_6"
    ELSE "0"

\* lines 295-332; "0" is the initial value of action, left when no branch is taken
ActionOf(m, p, src_height, tgt_height) ==
    IF src_height = tgt_height
    THEN IF value_of_var_in_model(m, tn_4_variable(p, src_height))
         THEN "transmit_4" ELSE "transmit_6"
    ELSE IF src_height = tgt_height - 1
    THEN IF value_of_var_in_model(m, tn_4_variable(p, src_height))
         THEN IF value_of_var_in_model(m, tn_4_variable(p + 1, tgt_height))
              THEN "push_4_4" ELSE "push_4_6"
         ELSE IF value_of_var_in_model(m, tn_4_variable(p + 1, tgt_height))
              THEN "push_6_4" ELSE "push_6_6"
    ELSE IF src_height = tgt_height + 1
    THEN IF value_of_var_in_model(m, tn_4_variable(p, src_height))
         THEN IF value_of_var_in_model(m, tn_4_variable(p + 1, tgt_height))
              THEN "pop_4_4" ELSE "pop_6_4"
         ELSE IF value_of_var_in_model(m, tn_4_variable(p + 1, tgt_height))
              THEN "pop_4_6" ELSE "pop_6_6"
    ELSE "0"

\* the variables the iteration hands to value_of_var_in_model
Queried(num_nodes, stack_size, p, src_height, tgt_height) ==
    PathVarsAt(num_nodes, stack_size, p) \cup PathVarsAt(num_nodes, stack_size, p + 1)
    \cup (IF src_height = tgt_height
          THEN {tn_4_variable(p, src_height)}
          ELSE IF src_height = tgt_height - 1 \/ src_height = tgt_height + 1
          THEN {tn_4_variable(p, src_height), tn_4_variable(p + 1, tgt_height)}
          ELSE {})

tn_step_create(action, src, tgt) == [action |-> action, src |-> src, tgt |-> tgt]

\* the effect of the iteration pos of the decoder on a model m with bound len
DecodeIteration(m, net, len) ==
    LET stack_size == get_stack_size(len)
        s == LastTrue(m, net.num_nodes, stack_size, pos)
        t == LastTrue(m, net.num_nodes, stack_size, pos + 1)
    IN /\ locals' = [src |-> s[1], src_height |-> s[2], tgt |-> t[1], tgt_height |-> t[2]]
       /\ queried' = Queried(net.num_nodes, stack_size, pos, s[2], t[2])
       /\ path' = Append(path, tn_step_create(ActionOf(m, pos, s[2], t[2]), s[1], t[1]))
       /\ pos' = pos + 1

(***************************************************************************)
(* Specification of the reduction and the decoder: build the boundary      *)
(* part, let the solver return any model of the whole formula, decode it.  *)
(***************************************************************************)
InitFull(nets, lens) ==
    /\ network \in {net \in nets : InRange(net)}
    /\ length \in lens
    /\ pc = "build"
    /\ k = 0
    /\ constraints = <<>>
    /\ model = {}
    /\ pos = 0
    /\ path = <<>>
    /\ locals = Idle
    /\ queried = {}
    /\ out = <<>>
    /\ walk = <<>>

InitDecode == InitFull(DecodeNetworks, 1..MaxLen)

InitWide == InitFull(WideNetworks, 1..WideLen)

Solve ==
    /\ pc = "built"
    /\ \E m \in Prefixes(network, length, constraints, length) :
         /\ tn_reduction(m, network, length, constraints)
         /\ model' = m
    /\ pc' = "decode"
    /\ UNCHANGED <<network, length, k, constraints, pos, path, locals, queried, out, walk>>

tn_get_path_from_model ==
    /\ pc = "decode"
    /\ pos < length
    /\ DecodeIteration(model, network, length)
    /\ UNCHANGED <<network, length, pc, k, constraints, model, out, walk>>

DecodeReturn ==
    /\ pc = "decode"
    /\ pos >= length
    /\ pc' = "done"
    /\ UNCHANGED <<network, length, k, constraints, model, pos, path, locals, queried, out, walk>>

NextDecode ==
    \/ formula_initial_and_final_positions
    \/ Solve
    \/ tn_get_path_from_model
    \/ DecodeReturn

SpecDecode == InitDecode /\ [][NextDecode]_vars

SpecWide == InitWide /\ [][NextDecode]_vars

\* C3: decoding a model of the whole formula gives length steps, from the
\* initial node to the final node, each step starting where the previous ended.
C3_RoundTrip ==
    pc = "done" =>
        /\ Len(path) = length
        /\ path[1].src = network.initial
        /\ path[length].tgt = network.final
        /\ \A i \in 1..(length - 1) : path[i].tgt = path[i + 1].src

PushTags == {"push_4_4", "push_4_6", "push_6_4", "push_6_6"}

PopTags == {"pop_4_4", "pop_4_6", "pop_6_4", "pop_6_6"}

\* an iteration of the decoder has run on a model of the whole formula
Decoded == pc \in {"decode", "done"} /\ pos > 0

ScenarioNetwork ==
    [num_nodes |-> 2, initial |-> 0, final |-> 1,
     edges |-> {[src |-> 0, tgt |-> 1, caps |-> {"transmit_4", "transmit_6"}]}]

\* C6: on the scenario network with length 1, every model decodes to the one
\* step transmit_4 from s to d.
C6_Scenario ==
    (network = ScenarioNetwork /\ length = 1 /\ pc = "done") =>
        path = <<tn_step_create("transmit_4", 0, 1)>>

\* the formula of the scenario is satisfiable and its model is decoded
C6_Witness == network = ScenarioNetwork /\ length = 1 /\ pc = "done"

AnyNetworks ==
    {[num_nodes |-> n, initial |-> 0, final |-> n - 1, edges |-> NoEdges(n)] :
        n \in 1..AnyMaxNodes}

InitAny ==
    /\ network \in AnyNetworks
    /\ length \in 1..AnyMaxLen
    /\ pc = "decode"
    /\ k = 0
    /\ constraints = <<>>
    /\ model \in Columns(network.num_nodes, get_stack_size(length), 0)
    /\ pos = 0
    /\ path = <<>>
    /\ locals = Idle
    /\ queried = {}
    /\ out = <<>>
    /\ walk = <<>>

DecodeAny ==
    /\ pc = "decode"
    /\ pos < length
    /\ \E col \in Columns(network.num_nodes, get_stack_size(length), pos + 1) :
         LET m == {v \in model : VarPos(v) = pos} \cup col
         IN /\ DecodeIteration(m, network, length)
            /\ model' = m
    /\ UNCHANGED <<network, length, pc, k, constraints, out, walk>>

NextAny == DecodeAny \/ DecodeReturn

SpecAny == InitAny /\ [][NextAny]_vars

\* the argument contract of the Variable Generator
InContract(v, net, len) ==
    /\ v[1] = "node" =>
          /\ v[2] \in Nodes(net)
          /\ v[3] \in 0..len
          /\ v[4] \in 0..(get_stack_size(len) - 1)
    /\ v[1] # "node" =>
          /\ v[2] \in 0..(get_stack_size(len) - 1)
          /\ v[3] \in 0..len

\* C10: on any model the decoder produces length steps and every variable it
\* queries is within the contract of the Variable Generator.
C10_QueriesInContract ==
    /\ \A v \in queried : InContract(v, network, length)
    /\ pc = "done" => Len(path) = length

(***************************************************************************)
(* tn_print_model, one iteration of its loop over pos.                     *)
(***************************************************************************)
\* lines 346-357: the (node, height) pairs printed, in loop order
StateLine(m, num_nodes, stack_size, p) ==
    LET all == [i \in 1..(num_nodes * stack_size) |->
                   <<(i - 1) \div stack_size, (i - 1) % stack_size>>]
    IN SelectSeq(all, LAMBDA e : value_of_var_in_model(m, tn_path_variable(e[1], p, e[2])))

WarningsFromOne(num_seen) ==
    [no_node |-> num_seen = 0, several |-> num_seen >= 1]

\* lines 358-363
Warnings(num_seen) ==
    [no_node |-> num_seen = 0, several |-> num_seen > 1]

RECURSIVE StackLoopNoTop(_, _, _, _, _)
StackLoopNoTop(m, p, stack_size, height, acc) ==
    IF height >= stack_size THEN acc
    ELSE LET four == value_of_var_in_model(m, tn_4_variable(p, height))
             six == value_of_var_in_model(m, tn_6_variable(p, height))
             cell == IF four THEN (IF six THEN "X" ELSE "4")
                     ELSE IF six THEN "6" ELSE " "
             mis == IF four /\ six THEN TRUE
                    ELSE IF four \/ six THEN acc.above_top \/ acc.misdefined
                    ELSE acc.misdefined
         IN StackLoopNoTop(m, p, stack_size, height + 1,
                [cells |-> Append(acc.cells, cell), misdefined |-> mis,
                 above_top |-> acc.above_top])

RECURSIVE StackLoop(_, _, _, _, _)
\* lines 367-394: the loop over height, acc holding cells printed so far,
\* misdefined and above_top
StackLoop(m, p, stack_size, height, acc) ==
    IF height >= stack_size THEN acc
    ELSE LET four == value_of_var_in_model(m, tn_4_variable(p, height))
             six == value_of_var_in_model(m, tn_6_variable(p, height))
             cell == IF four THEN (IF six THEN "X" ELSE "4")
                     ELSE IF six THEN "6" ELSE " "
             mis == IF four /\ six THEN TRUE
                    ELSE IF four \/ six THEN acc.above_top \/ acc.misdefined
                    ELSE acc.misdefined
         IN StackLoop(m, p, stack_size, height + 1,
                [cells |-> Append(acc.cells, cell), misdefined |-> mis,
                 above_top |-> acc.above_top \/ (~four /\ ~six)])

\* what the iteration p prints
PrintIteration(m, net, len, p) ==
    LET stack_size == get_stack_size(len)
        state == StateLine(m, net.num_nodes, stack_size, p)
        stack == StackLoop(m, p, stack_size, 0,
                           [cells |-> <<>>, misdefined |-> FALSE, above_top |-> FALSE])
    IN [pos |-> p,
        state |-> state,
        no_node |-> Warnings(Len(state)).no_node,
        several |-> Warnings(Len(state)).several,
        stack |-> stack.cells,
        ill_defined |-> stack.misdefined]

(***************************************************************************)
(* Specification of the printer on any model.  Iteration pos reads the     *)
(* column pos only: model holds the column being printed, drawn when the   *)
(* iteration reads it, and out what the iteration printed; pos++ moves to  *)
(* the next column.                                                        *)
(***************************************************************************)
PrintNetworks ==
    {[num_nodes |-> n, initial |-> 0, final |-> n - 1, edges |-> NoEdges(n)] :
        n \in 1..PrintMaxNodes}

InitPrint ==
    /\ network \in PrintNetworks
    /\ length \in 0..PrintMaxLen
    /\ pc = "print"
    /\ k = 0
    /\ constraints = <<>>
    /\ model = {}
    /\ pos = 0
    /\ path = <<>>
    /\ locals = Idle
    /\ queried = {}
    /\ out = <<>>
    /\ walk = <<>>

tn_print_model ==
    /\ pc = "print"
    /\ pos < length + 1
    /\ \E col \in Columns(network.num_nodes, get_stack_size(length), pos) :
         /\ model' = col
         /\ out' = <<PrintIteration(col, network, length, pos)>>
    /\ pc' = "printed"
    /\ UNCHANGED <<network, length, pos, k, constraints, path, locals, queried, walk>>

PrintAdvance ==
    /\ pc = "printed"
    /\ pos' = pos + 1
    /\ model' = {}
    /\ out' = <<>>
    /\ pc' = "print"
    /\ UNCHANGED <<network, length, k, constraints, path, locals, queried, walk>>

PrintReturn ==
    /\ pc = "print"
    /\ pos >= length + 1
    /\ pc' = "done"
    /\ UNCHANGED <<network, length, k, constraints, model, pos, path, locals, queried, out, walk>>

NextPrint == tn_print_model \/ PrintAdvance \/ PrintReturn

SpecPrint == InitPrint /\ [][NextPrint]_vars

\* an iteration of the printer has run
Printed == pc = "printed"

\* C7: the printer goes through the positions 0..bound in order and returns
\* only after the last one; at each position it warns "no node" exactly when
\* no pair is true, "several" exactly when more than one is, and renders the
\* stack of the position in every case.
C7_WarningsAndNoEarlyStop ==
    /\ Printed =>
         LET seen == Cardinality(TruePairs(model, network, length, pos))
         IN /\ out[1].pos = pos
            /\ Len(out[1].state) = seen
            /\ out[1].no_node = (seen = 0)
            /\ out[1].several = (seen > 1)
            /\ Len(out[1].stack) = get_stack_size(length)
    /\ pc = "done" => pos = length + 1
    /\ (pc = "print" /\ pos <= length) => ENABLED tn_print_model

C7_Witness ==
    /\ Printed
    /\ pos = length
    /\ length >= 1
    /\ out[1].several
    /\ ~out[1].no_node
    /\ Len(out[1].state) = 2

\* the cell at height h of position p, read from the model
CellOf(m, p, h) ==
    IF value_of_var_in_model(m, tn_4_variable(p, h))
    THEN (IF value_of_var_in_model(m, tn_6_variable(p, h)) THEN "X" ELSE "4")
    ELSE (IF value_of_var_in_model(m, tn_6_variable(p, h)) THEN "6" ELSE " ")

\* C8: every cell is rendered 4, 6, X (both) or empty as the model says; a
\* non-empty cell above an empty one flags the position ill-defined; a
\* position without conflict whose cells are prefix-contiguous is not flagged.
C8_StackRendering ==
    Printed =>
        LET p == pos
            hs == 0..(get_stack_size(length) - 1)
            gap == \E lo \in hs, hi \in hs :
                      lo < hi /\ CellOf(model, p, lo) = " " /\ CellOf(model, p, hi) # " "
            conflict == \E h \in hs : CellOf(model, p, h) = "X"
        IN /\ \A h \in hs : out[1].stack[h + 1] = CellOf(model, p, h)
           /\ gap => out[1].ill_defined
           /\ (~gap /\ ~conflict) => ~out[1].ill_defined

C8_Witness ==
    /\ Printed
    /\ out[1].stack = <<"4", " ", "6">>
    /\ out[1].ill_defined

(***************************************************************************)
(* Height walks: length moves of -1, 0 or +1 from height 0, never below 0. *)
(* walk is the sequence of the heights at the positions reached so far.    *)
(***************************************************************************)
InitWalk ==
    /\ network = [num_nodes |-> 1, initial |-> 0, final |-> 0, edges |-> NoEdges(1)]
    /\ length \in 0..WalkMaxLen
    /\ pc = "walk"
    /\ k = 0
    /\ constraints = <<>>
    /\ model = {}
    /\ pos = 0
    /\ path = <<>>
    /\ locals = Idle
    /\ queried = {}
    /\ out = <<>>
    /\ walk = <<0>>

MoveHeight ==
    /\ pc = "walk"
    /\ pos < length
    /\ \E d \in {-1, 0, 1} :
         /\ walk[Len(walk)] + d >= 0
         /\ walk' = Append(walk, walk[Len(walk)] + d)
    /\ pos' = pos + 1
    /\ UNCHANGED <<network, length, pc, k, constraints, model, path, locals, queried, out>>

NextWalk == MoveHeight

SpecWalk == InitWalk /\ [][NextWalk]_vars

\* w is a sequence of len moves from height 0 back to height 0
LegalWalk(w, len) ==
    /\ Len(w) = len + 1
    /\ w[1] = 0
    /\ w[len + 1] = 0
    /\ \A i \in 1..(len + 1) : w[i] >= 0
    /\ \A i \in 1..len : w[i + 1] - w[i] \in {-1, 0, 1}

\* up for length / 2 moves, down for as many
PeakWalk(len) ==
    [i \in 1..(len + 1) |-> IF i - 1 <= len + 1 - i THEN i - 1 ELSE len + 1 - i]

\* C5: every legal walk of length moves stays below get_stack_size(length),
\* and some legal walk reaches get_stack_size(length) - 1.
C5_StackSizeIsMinimumSufficient ==
    /\ LegalWalk(walk, length) =>
          \A i \in 1..Len(walk) : walk[i] \in 0..(get_stack_size(length) - 1)
    /\ LegalWalk(PeakWalk(length), length)
    /\ \E i \in 1..(length + 1) : PeakWalk(length)[i] = get_stack_size(length) - 1

C5_Witness ==
    /\ LegalWalk(walk, length)
    /\ length = WalkMaxLen
    /\ \E i \in 1..Len(walk) : walk[i] = get_stack_size(length) - 1

(***************************************************************************)
(* Specification of the boundary builder: build the formula, then let the  *)
(* solver return any assignment of the variables of positions 0 and length *)
(* that satisfies it.                                                      *)
(***************************************************************************)
BoundaryVars(net, len) ==
    LET stack_size == get_stack_size(len)
    IN {tn_path_variable(n, p, h) : n \in Nodes(net), p \in {0, len}, h \in 0..(stack_size - 1)}
       \cup {tn_4_variable(p, h) : p \in {0, len}, h \in 0..(stack_size - 1)}
       \cup {tn_6_variable(p, h) : p \in {0, len}, h \in 0..(stack_size - 1)}

Mentioned(lits) == {lits[i].v : i \in 1..Len(lits)}

Asserted(lits) == {lits[i].v : i \in {j \in 1..Len(lits) : ~lits[j].neg}}

InitBoundary ==
    /\ network \in {net \in BoundaryNetworks : InRange(net)}
    /\ length \in 1..BMaxLen
    /\ pc = "build"
    /\ k = 0
    /\ constraints = <<>>
    /\ model = {}
    /\ pos = 0
    /\ path = <<>>
    /\ locals = Idle
    /\ queried = {}
    /\ out = <<>>
    /\ walk = <<>>

SolveBoundary ==
    /\ pc = "built"
    /\ \E free \in SUBSET (BoundaryVars(network, length) \ Mentioned(constraints)) :
         /\ Z3_mk_and(constraints, Asserted(constraints) \cup free)
         /\ model' = Asserted(constraints) \cup free
    /\ pc' = "solved"
    /\ UNCHANGED <<network, length, k, constraints, pos, path, locals, queried, out, walk>>

NextBoundary == formula_initial_and_final_positions \/ SolveBoundary

SpecBoundary == InitBoundary /\ [][NextBoundary]_vars

\* position p holds exactly (node, height 0) with stack [4]
Pinned(m, net, len, p, node) ==
    /\ TruePairs(m, net, len, p) = {<<node, 0>>}
    /\ value_of_var_in_model(m, tn_4_variable(p, 0))
    /\ ~value_of_var_in_model(m, tn_6_variable(p, 0))
    /\ \A h \in 1..(get_stack_size(len) - 1) :
          /\ ~value_of_var_in_model(m, tn_4_variable(p, h))
          /\ ~value_of_var_in_model(m, tn_6_variable(p, h))

\* C1: every assignment satisfying the boundary formula pins position 0 to
\* (initial node, height 0, stack [4]) and position length to (final node,
\* height 0, stack [4]).
C1_BoundaryPinsBothEnds ==
    pc = "solved" =>
        /\ Pinned(model, network, length, 0, network.initial)
        /\ Pinned(model, network, length, length, network.final)

\* C2: every constraint is written inside constraints[], and the returned
\* conjunction holds every generated constraint.
C2_NoWritePastCapacity ==
    pc # "build" =>
        /\ k = 2 * get_stack_size(length) * (network.num_nodes + 2)
        /\ k <= Capacity
        /\ pc = "built" \/ pc = "solved"
        /\ constraints = Emitted(network, length)

====
